---- MODULE Spec2Model ----
(***************************************************************************)
(* A model of scheduleTasks (src/scheduler.js): registry validation, the   *)
(* prioritised Kahn sequencer and the calendar allocation walk.            *)
(*                                                                         *)
(* Dates (dayjs values at local midnight) are day counts since 1970-01-01, *)
(* date strings "YYYY-MM-DD" are triples <<Y, M, D>>; format and the       *)
(* parsers convert between the two with civil-calendar arithmetic.         *)
(***************************************************************************)
EXTENDS Integers, Sequences, FiniteSets, TLC

VARIABLES
    args,           \* the call's argument object (never assigned by the code)
    pc,             \* position of the call
    error,          \* message kind of the thrown Error, "" while none
    taskMap,        \* Map title -> task, as the sequence of its values in insertion order
    indeg,          \* Map title -> in-degree
    adj,            \* Map title -> array of dependents
    available,      \* the ready array
    topo,           \* the emitted order
    currentDay,     \* simulation date
    freeHoursToday, \* free hours left on currentDay
    remaining,      \* Map title -> hours (line 95)
    finishedAt,     \* Map title -> finish date
    schedule,       \* array of {date, allocations}
    warnings,       \* array of warnings
    idx,            \* index into topo of the task the for-loop of line 127 is at
    rem,            \* the local rem of line 150
    d,              \* weekday of nextWorkday's cursor while its loop cannot exit
    result          \* the returned object, <<>> while none

vars == <<args, pc, error, taskMap, indeg, adj, available, topo, currentDay,
          freeHoursToday, remaining, finishedAt, schedule, warnings, idx, rem, d, result>>

-----------------------------------------------------------------------------
(* Bounds of the checked inputs *)

MaxHours == 2
MaxWorkHours == 2

Titles == <<"A", "B", "C">>
MaxTasks == Len(Titles)
UnknownTitle == "Z"

-----------------------------------------------------------------------------
(* Calendar utility: day counts, weekday, fixed-format strings *)

WEEKDAY_NAME == <<"Sun", "Mon", "Tue", "Wed", "Thu", "Fri", "Sat">>

\* d.day(): 0 = Sunday; 1970-01-01 was a Thursday
day(date) == (date + 4) % 7

IsLeap(y) == (y % 4 = 0 /\ y % 100 # 0) \/ y % 400 = 0

DaysInMonth(y, m) ==
    IF m = 2 THEN (IF IsLeap(y) THEN 29 ELSE 28)
    ELSE IF m \in {4, 6, 9, 11} THEN 30 ELSE 31

\* day count of the civil date y-m-dd
DaysFromCivil(y, m, dd) ==
    LET yy  == IF m <= 2 THEN y - 1 ELSE y
        era == yy \div 400
        yoe == yy - era * 400
        mp  == IF m > 2 THEN m - 3 ELSE m + 9
        doy == (153 * mp + 2) \div 5 + dd - 1
        doe == yoe * 365 + yoe \div 4 - yoe \div 100 + doy
    IN  era * 146097 + doe - 719468

\* date.format("YYYY-MM-DD")
format(date) ==
    LET z   == date + 719468
        era == z \div 146097
        doe == z - era * 146097
        yoe == (doe - doe \div 1460 + doe \div 36524 - doe \div 146096) \div 365
        doy == doe - (365 * yoe + yoe \div 4 - yoe \div 100)
        mp  == (5 * doy + 2) \div 153
        dd  == doy - (153 * mp + 2) \div 5 + 1
        m   == IF mp < 10 THEN mp + 3 ELSE mp - 9
        y   == yoe + era * 400 + (IF m <= 2 THEN 1 ELSE 0)
    IN  <<y, m, dd>>

\* dayjs(s) of a well-formed date string
dayjs(s) == DaysFromCivil(s[1], s[2], s[3])

isValid(s) == s[2] \in 1..12 /\ s[3] \in 1..DaysInMonth(s[1], s[2])

\* null is <<>>, a date is <<date>>
parseDate(s) == IF isValid(s) THEN <<dayjs(s)>> ELSE <<>>

includes(workDays, name) == name \in workDays

HasWorkday(workDays) == \E i \in 1..7 : includes(workDays, WEEKDAY_NAME[i])

\* nextWorkday without its loop
nextWorkdayNoSkip(date, workDays) == date

RECURSIVE nextWorkday(_, _)
nextWorkday(date, workDays) ==
    IF includes(workDays, WEEKDAY_NAME[day(date) + 1]) THEN date
    ELSE nextWorkday(date + 1, workDays)

Epoch == dayjs(<<1970, 1, 1>>)


-----------------------------------------------------------------------------
(* The Map of normalised tasks, in insertion order *)

has(map, title) == \E i \in 1..Len(map) : map[i].title = title

get(map, title) == map[CHOOSE i \in 1..Len(map) : map[i].title = title]

keys(map) == [i \in 1..Len(map) |-> map[i].title]

\* a.localeCompare(b) on the titles of the pool
Rank(title) == CHOOSE i \in 1..Len(Titles) : Titles[i] = title

localeCompare(a, b) ==
    IF Rank(a) < Rank(b) THEN -1 ELSE IF Rank(a) > Rank(b) THEN 1 ELSE 0

\* normalize accepting zero hours (< for <=)
RECURSIVE normalizeZeroHours(_, _, _)
normalizeZeroHours(tasks, i, map) ==
    IF i > Len(tasks) THEN [error |-> "", taskMap |-> map]
    ELSE LET t == tasks[i]
             due == parseDate(t.dueDate)
         IN  IF t.title = "" \/ t.hoursType # "number" \/ t.estimatedHours < 0
             THEN [error |-> "Each task must have title and positive estimatedHours", taskMap |-> map]
             ELSE IF due = <<>>
             THEN [error |-> "Invalid dueDate", taskMap |-> map]
             ELSE IF has(map, t.title)
             THEN [error |-> "Duplicate task title", taskMap |-> map]
             ELSE normalizeZeroHours(tasks, i + 1,
                     Append(map, [title |-> t.title,
                                  estimatedHours |-> t.estimatedHours,
                                  dueDate |-> due[1],
                                  dependencies |-> t.dependencies]))

\* the forEach of lines 21-34 from descriptor i on: the first throw, or the Map
RECURSIVE normalize(_, _, _)
normalize(tasks, i, map) ==
    IF i > Len(tasks) THEN [error |-> "", taskMap |-> map]
    ELSE LET t == tasks[i]
             due == parseDate(t.dueDate)
         IN  IF t.title = "" \/ t.hoursType # "number" \/ t.estimatedHours <= 0
             THEN [error |-> "Each task must have title and positive estimatedHours", taskMap |-> map]
             ELSE IF due = <<>>
             THEN [error |-> "Invalid dueDate", taskMap |-> map]
             ELSE IF has(map, t.title)
             THEN [error |-> "Duplicate task title", taskMap |-> map]
             ELSE normalize(tasks, i + 1,
                     Append(map, [title |-> t.title,
                                  estimatedHours |-> t.estimatedHours,
                                  dueDate |-> due[1],
                                  dependencies |-> t.dependencies]))

\* the pairs (dep, title) in the order the nested loops of lines 37-41 and 51-55 visit them
RECURSIVE edges(_, _, _)
edges(map, i, j) ==
    IF i > Len(map) THEN <<>>
    ELSE IF j > Len(map[i].dependencies) THEN edges(map, i + 1, 1)
    ELSE <<[dep |-> map[i].dependencies[j], title |-> map[i].title]>> \o edges(map, i, j + 1)

\* lines 37-42: the first throw of the dependency check, "" when none
RECURSIVE dependencyError(_, _, _)
dependencyError(map, es, k) ==
    IF k > Len(es) THEN ""
    ELSE IF ~has(map, es[k].dep) THEN "depends on unknown task"
    ELSE IF es[k].dep = es[k].title THEN "depends on itself"
    ELSE dependencyError(map, es, k + 1)

\* cmp with the tie-break on hours turned round
cmpSmallerFirst(map, a, b) ==
    LET ta == get(map, a)
        tb == get(map, b)
    IN  IF ta.dueDate < tb.dueDate THEN -1
        ELSE IF ta.dueDate > tb.dueDate THEN 1
        ELSE IF ta.estimatedHours < tb.estimatedHours THEN -1
        ELSE IF ta.estimatedHours > tb.estimatedHours THEN 1
        ELSE localeCompare(a, b)

\* lines 59-67
cmp(map, a, b) ==
    LET ta == get(map, a)
        tb == get(map, b)
    IN  IF ta.dueDate < tb.dueDate THEN -1
        ELSE IF ta.dueDate > tb.dueDate THEN 1
        ELSE IF ta.estimatedHours > tb.estimatedHours THEN -1
        ELSE IF ta.estimatedHours < tb.estimatedHours THEN 1
        ELSE localeCompare(a, b)

\* insert that leaves x at the end: a push without the sort of line 83
insertAtEnd(map, s, x) == s \o <<x>>

\* insert x into the sorted s after every element that does not compare greater
RECURSIVE insert(_, _, _)
insert(map, s, x) ==
    IF s = <<>> THEN <<x>>
    ELSE IF cmp(map, x, Head(s)) < 0 THEN <<x>> \o s
    ELSE <<Head(s)>> \o insert(map, Tail(s), x)

\* array.sort(cmp): stable
RECURSIVE sort(_, _)
sort(map, s) ==
    IF s = <<>> THEN <<>>
    ELSE insert(map, sort(map, SubSeq(s, 1, Len(s) - 1)), s[Len(s)])

\* release without the test of line 80: a dependent is made ready at every decrement
RECURSIVE releaseEager(_, _, _, _)
releaseEager(map, nbs, deg, avail) ==
    IF nbs = <<>> THEN [indeg |-> deg, available |-> avail]
    ELSE LET nb   == Head(nbs)
             deg2 == [deg EXCEPT ![nb] = deg[nb] - 1]
         IN  releaseEager(map, Tail(nbs), deg2, sort(map, Append(avail, nb)))

\* lines 78-85 for the dependents nbs of the task just emitted
RECURSIVE release(_, _, _, _)
release(map, nbs, deg, avail) ==
    IF nbs = <<>> THEN [indeg |-> deg, available |-> avail]
    ELSE LET nb   == Head(nbs)
             deg2 == [deg EXCEPT ![nb] = deg[nb] - 1]
         IN  IF deg2[nb] = 0
             THEN release(map, Tail(nbs), deg2, sort(map, Append(avail, nb)))
             ELSE release(map, Tail(nbs), deg2, avail)

\* addAllocation without the findIndex of line 112: every allocation opens a record
addAllocationAlwaysPush(sched, date, title, hours) ==
    Append(sched, [date |-> date, allocations |-> <<[title |-> title, hours |-> hours]>>])

\* lines 111-115
addAllocation(sched, date, title, hours) ==
    IF \E i \in 1..Len(sched) : sched[i].date = date
    THEN LET i == CHOOSE i \in 1..Len(sched) :
                     /\ sched[i].date = date
                     /\ \A j \in 1..(i - 1) : sched[j].date # date
         IN  [sched EXCEPT ![i].allocations = Append(@, [title |-> title, hours |-> hours])]
    ELSE Append(sched, [date |-> date, allocations |-> <<[title |-> title, hours |-> hours]>>])

\* min that returns its first argument
minFirst(a, b) == a

\* Math.min
min(a, b) == IF a < b THEN a ELSE b

\* earliestReadyOf taking a dependency's work as done only on the day after its finish
RECURSIVE earliestReadyDayAfter(_, _, _, _)
earliestReadyDayAfter(deps, fin, now, acc) ==
    IF deps = <<>> THEN acc
    ELSE LET dep == Head(deps)
         IN  IF dep \notin DOMAIN fin
             THEN earliestReadyDayAfter(Tail(deps), fin, now, now)
             ELSE earliestReadyDayAfter(Tail(deps), fin, now,
                                        IF fin[dep] + 1 > acc THEN fin[dep] + 1 ELSE acc)

\* lines 130-140: the latest finish among the dependencies; now stands for dayjs()
RECURSIVE earliestReadyOf(_, _, _, _)
earliestReadyOf(deps, fin, now, acc) ==
    IF deps = <<>> THEN acc
    ELSE LET dep == Head(deps)
         IN  IF dep \notin DOMAIN fin
             THEN earliestReadyOf(Tail(deps), fin, now, now)
             ELSE earliestReadyOf(Tail(deps), fin, now,
                                  IF fin[dep] > acc THEN fin[dep] ELSE acc)

\* line 176: the records holding an allocation of title
recordsOf(sched, title) ==
    {i \in 1..Len(sched) :
        \E k \in 1..Len(sched[i].allocations) : sched[i].allocations[k].title = title}


-----------------------------------------------------------------------------
(* The inputs the call is checked on *)

DueDates == {<<1970, 1, 3>>, <<1970, 1, 6>>}          \* a Saturday, a Tuesday
StartDates == {<<1970, 1, 2>>, <<1970, 1, 3>>}        \* a Friday, a Saturday
InvalidDate == <<1970, 2, 30>>
MonToFri == {"Mon", "Tue", "Wed", "Thu", "Fri"}
WorkDayChoices == {MonToFri, {"Tue", "Thu", "Sat"}}
NoWorkdayChoices == {{}, {"Funday"}}

\* the elements of the set S of titles, in the order of the pool
RECURSIVE seqOf(_, _)
seqOf(S, i) ==
    IF i > Len(Titles) THEN <<>>
    ELSE (IF Titles[i] \in S THEN <<Titles[i]>> ELSE <<>>) \o seqOf(S, i + 1)

Descriptors(i, n, hours, dues) ==
    [title : {Titles[i]}, hoursType : {"number"}, estimatedHours : hours, dueDate : dues,
     dependencies : {seqOf(S, 1) : S \in SUBSET ({Titles[j] : j \in 1..n} \ {Titles[i]})}]

\* well-formed task lists of n tasks: distinct titles, dependencies on other tasks of the list
Lists(n, hours, dues) ==
    {ts \in [1..n -> UNION {Descriptors(i, n, hours, dues) : i \in 1..n}] :
        \A i \in 1..n : ts[i].title = Titles[i]}

HourChoices == {1, MaxHours}
WorkHourChoices == {1, MaxWorkHours}

WellFormedLists == UNION {Lists(n, HourChoices, DueDates) : n \in 1..MaxTasks}

PlainLists == UNION {Lists(n, {1}, {<<1970, 1, 6>>}) : n \in 1..MaxTasks}

\* a well-formed list with one field of one descriptor replaced
Variants(ts) ==
    UNION {
        {[ts EXCEPT ![i].title = ""],
         [ts EXCEPT ![i].title = Titles[(i % Len(ts)) + 1]],
         [ts EXCEPT ![i].hoursType = "string"],
         [ts EXCEPT ![i].estimatedHours = 0],
         [ts EXCEPT ![i].estimatedHours = -1],
         [ts EXCEPT ![i].dueDate = InvalidDate],
         [ts EXCEPT ![i].dependencies = Append(@, UnknownTitle)],
         [ts EXCEPT ![i].dependencies = Append(@, ts[i].title)],
         [ts EXCEPT ![i].dependencies = @ \o @]} : i \in 1..Len(ts)}

Calendars ==
    [workHoursPerDay : WorkHourChoices, workDays : WorkDayChoices, startDate : {<<d0>> : d0 \in StartDates}]

DefaultCalendar == [workHoursPerDay |-> MaxWorkHours, workDays |-> MonToFri, startDate |-> <<>>]

NoWorkdayCalendars ==
    [workHoursPerDay : {1}, workDays : NoWorkdayChoices, startDate : {<<d0>> : d0 \in StartDates}]

Args(isArray, ts, cal) ==
    [tasksIsArray |-> isArray, tasks |-> ts, workHoursPerDay |-> cal.workHoursPerDay,
     workDays |-> cal.workDays, startDate |-> cal.startDate]

\* the worked examples: one task of 10 hours; B of 4 hours depending on A of 8 hours;
\* 8 hours a day, Monday to Friday, from Monday 2024-01-08
ExampleCalendar == [workHoursPerDay |-> 8, workDays |-> MonToFri, startDate |-> <<<<2024, 1, 8>>>>]

ExampleSplit ==
    Args(TRUE, <<[title |-> "A", hoursType |-> "number", estimatedHours |-> 10,
                  dueDate |-> <<2024, 1, 10>>, dependencies |-> <<>>]>>, ExampleCalendar)

ExampleDependent ==
    Args(TRUE, <<[title |-> "A", hoursType |-> "number", estimatedHours |-> 8,
                  dueDate |-> <<2024, 12, 31>>, dependencies |-> <<>>],
                 [title |-> "B", hoursType |-> "number", estimatedHours |-> 4,
                  dueDate |-> <<2024, 12, 31>>, dependencies |-> <<"A">>]>>, ExampleCalendar)

Inputs ==
    {Args(TRUE, ts, cal) : ts \in WellFormedLists, cal \in Calendars}
    \cup {ExampleSplit, ExampleDependent}
    \cup {Args(TRUE, ts, DefaultCalendar) : ts \in UNION {Variants(b) : b \in PlainLists}}
    \cup {Args(TRUE, ts, cal) : ts \in PlainLists, cal \in NoWorkdayCalendars \cup {DefaultCalendar}}
    \cup {Args(TRUE, <<>>, DefaultCalendar), Args(FALSE, <<>>, DefaultCalendar)}

\* last date the walk may move on from: weeks after the start date
MaxDay ==
    (IF args.startDate # <<>> THEN dayjs(args.startDate[1]) ELSE dayjs(<<1970, 1, 3>>))
    + 7 * (MaxTasks * MaxHours + 2)

-----------------------------------------------------------------------------
(* The call *)

None == <<>>

\* the inputs of the liveness checks: every well-formed list of up to two tasks, and
\* every dependency graph over three tasks of MaxHours hours
LiveInputs ==
    {Args(TRUE, ts, cal) :
        ts \in Lists(1, HourChoices, DueDates) \cup Lists(2, HourChoices, DueDates)
                \cup Lists(MaxTasks, {MaxHours}, {<<1970, 1, 3>>}),
        cal \in Calendars \cup NoWorkdayCalendars \cup {DefaultCalendar}}
    \cup {Args(TRUE, ts, DefaultCalendar) : ts \in UNION {Variants(b) : b \in Lists(2, {1}, {<<1970, 1, 6>>})}}
    \cup {Args(TRUE, <<>>, DefaultCalendar), Args(FALSE, <<>>, DefaultCalendar)}

InitOn(inputs) ==
    /\ args \in inputs
    /\ pc = "validate"
    /\ error = ""
    /\ taskMap = <<>>
    /\ indeg = <<>>
    /\ adj = <<>>
    /\ available = <<>>
    /\ topo = <<>>
    /\ currentDay = 0
    /\ freeHoursToday = 0
    /\ remaining = <<>>
    /\ finishedAt = <<>>
    /\ schedule = <<>>
    /\ warnings = <<>>
    /\ idx = 0
    /\ rem = 0
    /\ d = 0
    /\ result = None

Init == InitOn(Inputs)

LiveInit == InitOn(LiveInputs)

throw(msg) ==
    /\ pc' = "error"
    /\ error' = msg

\* lines 18-34
ValidateTasks ==
    /\ pc = "validate"
    /\ IF ~args.tasksIsArray \/ Len(args.tasks) = 0
       THEN /\ throw("tasks must be a non-empty array")
            /\ UNCHANGED taskMap
       ELSE LET r == normalize(args.tasks, 1, <<>>)
            IN  /\ taskMap' = r.taskMap
                /\ IF r.error # "" THEN throw(r.error)
                   ELSE pc' = "dependencies" /\ UNCHANGED error
    /\ UNCHANGED <<args, indeg, adj, available, topo, currentDay, freeHoursToday,
                   remaining, finishedAt, schedule, warnings, idx, rem, d, result>>

\* lines 36-42
ValidateDependencies ==
    /\ pc = "dependencies"
    /\ LET e == dependencyError(taskMap, edges(taskMap, 1, 1), 1)
       IN  IF e # "" THEN throw(e) ELSE pc' = "graph" /\ UNCHANGED error
    /\ UNCHANGED <<args, taskMap, indeg, adj, available, topo, currentDay, freeHoursToday,
                   remaining, finishedAt, schedule, warnings, idx, rem, d, result>>

\* lines 44-74
BuildGraph ==
    /\ pc = "graph"
    /\ LET es  == edges(taskMap, 1, 1)
           ks  == keys(taskMap)
           deg == [t \in {ks[i] : i \in 1..Len(ks)} |->
                      Cardinality({k \in 1..Len(es) : es[k].title = t})]
           out == [t \in {ks[i] : i \in 1..Len(ks)} |->
                      LET mine == SelectSeq(es, LAMBDA e : e.dep = t)
                      IN  [k \in 1..Len(mine) |-> mine[k].title]]
       IN  /\ indeg' = deg
           /\ adj' = out
           /\ available' = sort(taskMap, SelectSeq(ks, LAMBDA t : deg[t] = 0))
    /\ topo' = <<>>
    /\ pc' = "kahn"
    /\ UNCHANGED <<args, error, taskMap, currentDay, freeHoursToday,
                   remaining, finishedAt, schedule, warnings, idx, rem, d, result>>

\* KahnStep with unshift for push at line 77
KahnStepUnshift ==
    /\ pc = "kahn"
    /\ Len(available) > 0
    /\ LET cur == Head(available)
           r   == release(taskMap, adj[cur], indeg, Tail(available))
       IN  /\ topo' = <<cur>> \o topo
           /\ indeg' = r.indeg
           /\ available' = r.available
    /\ UNCHANGED <<args, pc, error, taskMap, adj, currentDay, freeHoursToday,
                   remaining, finishedAt, schedule, warnings, idx, rem, d, result>>

\* lines 75-86, one iteration
KahnStep ==
    /\ pc = "kahn"
    /\ Len(available) > 0
    /\ LET cur == Head(available)
           r   == release(taskMap, adj[cur], indeg, Tail(available))
       IN  /\ topo' = Append(topo, cur)
           /\ indeg' = r.indeg
           /\ available' = r.available
    /\ UNCHANGED <<args, pc, error, taskMap, adj, currentDay, freeHoursToday,
                   remaining, finishedAt, schedule, warnings, idx, rem, d, result>>

\* CheckCycle without the throw of line 88
CheckCycleNoThrow ==
    /\ pc = "kahn"
    /\ Len(available) = 0
    /\ pc' = "start"
    /\ UNCHANGED <<args, error, taskMap, indeg, adj, available, topo, currentDay, freeHoursToday,
                   remaining, finishedAt, schedule, warnings, idx, rem, d, result>>

\* lines 87-89
CheckCycle ==
    /\ pc = "kahn"
    /\ Len(available) = 0
    /\ IF Len(topo) # Len(taskMap)
       THEN throw("Cycle detected in dependencies")
       ELSE pc' = "start" /\ UNCHANGED error
    /\ UNCHANGED <<args, taskMap, indeg, adj, available, topo, currentDay, freeHoursToday,
                   remaining, finishedAt, schedule, warnings, idx, rem, d, result>>

\* StartAllocation looking for a workday from the day after the start date
StartAllocationDayAfter ==
    /\ pc = "start"
    /\ \E now \in (IF args.startDate # <<>> THEN {Epoch} ELSE {dayjs(s) : s \in StartDates}) :
         LET today == IF args.startDate # <<>> THEN dayjs(args.startDate[1]) ELSE now
             from  == dayjs(format(today))
         IN  IF HasWorkday(args.workDays)
             THEN /\ currentDay' = nextWorkday(from + 1, args.workDays)
                  /\ remaining' = [t \in DOMAIN indeg |-> get(taskMap, t).estimatedHours]
                  /\ finishedAt' = <<>>
                  /\ schedule' = <<>>
                  /\ warnings' = <<>>
                  /\ freeHoursToday' = args.workHoursPerDay
                  /\ idx' = 1
                  /\ pc' = "task"
                  /\ d' = d
             ELSE /\ pc' = "nextWorkday"
                  /\ d' = day(from)
                  /\ UNCHANGED <<currentDay, remaining, finishedAt, schedule, warnings,
                                 freeHoursToday, idx>>
    /\ UNCHANGED <<args, error, taskMap, indeg, adj, available, topo, rem, result>>

\* lines 91-118; the loop of nextWorkday (line 12) never exits when no name of
\* workDays is a weekday name: its cursor is then followed by weekday only
StartAllocation ==
    /\ pc = "start"
    /\ \E now \in (IF args.startDate # <<>> THEN {Epoch} ELSE {dayjs(s) : s \in StartDates}) :
         LET today == IF args.startDate # <<>> THEN dayjs(args.startDate[1]) ELSE now
             from  == dayjs(format(today))
         IN  IF HasWorkday(args.workDays)
             THEN /\ currentDay' = nextWorkday(from, args.workDays)
                  /\ remaining' = [t \in DOMAIN indeg |-> get(taskMap, t).estimatedHours]
                  /\ finishedAt' = <<>>
                  /\ schedule' = <<>>
                  /\ warnings' = <<>>
                  /\ freeHoursToday' = args.workHoursPerDay
                  /\ idx' = 1
                  /\ pc' = "task"
                  /\ d' = d
             ELSE /\ pc' = "nextWorkday"
                  /\ d' = day(from)
                  /\ UNCHANGED <<currentDay, remaining, finishedAt, schedule, warnings,
                                 freeHoursToday, idx>>
    /\ UNCHANGED <<args, error, taskMap, indeg, adj, available, topo, rem, result>>

\* line 12, one iteration of the loop that cannot exit
NextWorkdayLoop ==
    /\ pc = "nextWorkday"
    /\ ~includes(args.workDays, WEEKDAY_NAME[d + 1])
    /\ d' = (d + 1) % 7
    /\ UNCHANGED <<args, pc, error, taskMap, indeg, adj, available, topo, currentDay,
                   freeHoursToday, remaining, finishedAt, schedule, warnings, idx, rem, result>>


\* advanceToNextWorkday that resets the free hours and keeps the date
advanceSameDay ==
    /\ currentDay' = currentDay
    /\ freeHoursToday' = args.workHoursPerDay

\* advanceToNextWorkday that moves the date and leaves the day's hours used up
advanceNoReset ==
    /\ currentDay' = nextWorkday(currentDay + 1, args.workDays)
    /\ freeHoursToday' = 0

\* advanceToNextWorkday that steps over a day
advanceSkipsADay ==
    /\ currentDay' = nextWorkday(currentDay + 2, args.workDays)
    /\ freeHoursToday' = args.workHoursPerDay

\* lines 121-124
advanceToNextWorkday ==
    /\ currentDay' = nextWorkday(currentDay + 1, args.workDays)
    /\ freeHoursToday' = args.workHoursPerDay

\* BeginTask whose gate also fires on the date a dependency finished (>= for isAfter at line 143)
BeginTaskGateOnSameDay ==
    /\ pc = "task"
    /\ idx <= Len(topo)
    /\ LET title == topo[idx]
           deps  == get(taskMap, title).dependencies
       IN  /\ \E now \in (IF \A k \in 1..Len(deps) : deps[k] \in DOMAIN finishedAt
                          THEN {Epoch} ELSE {dayjs(s) : s \in StartDates}) :
                 LET earliestReady == earliestReadyOf(deps, finishedAt, now, Epoch)
                 IN  IF earliestReady >= currentDay
                     THEN /\ currentDay' = nextWorkday(earliestReady, args.workDays)
                          /\ freeHoursToday' = args.workHoursPerDay
                     ELSE UNCHANGED <<currentDay, freeHoursToday>>
           /\ rem' = remaining[title]
    /\ pc' = "alloc"
    /\ UNCHANGED <<args, error, taskMap, indeg, adj, available, topo,
                   remaining, finishedAt, schedule, warnings, idx, d, result>>

\* lines 127-150: the for-loop takes the next task and gates it on its dependencies
BeginTask ==
    /\ pc = "task"
    /\ idx <= Len(topo)
    /\ LET title == topo[idx]
           deps  == get(taskMap, title).dependencies
       IN  /\ \E now \in (IF \A k \in 1..Len(deps) : deps[k] \in DOMAIN finishedAt
                          THEN {Epoch} ELSE {dayjs(s) : s \in StartDates}) :
                 LET earliestReady == earliestReadyOf(deps, finishedAt, now, Epoch)
                 IN  IF earliestReady > currentDay
                     THEN /\ currentDay' = nextWorkday(earliestReady, args.workDays)
                          /\ freeHoursToday' = args.workHoursPerDay
                     ELSE UNCHANGED <<currentDay, freeHoursToday>>
           /\ rem' = remaining[title]
    /\ pc' = "alloc"
    /\ UNCHANGED <<args, error, taskMap, indeg, adj, available, topo,
                   remaining, finishedAt, schedule, warnings, idx, d, result>>

\* AllocStep warning from the due date itself on (>= for isAfter at line 155)
AllocStepWarnOnDueDate ==
    /\ pc = "alloc"
    /\ rem > 0
    /\ currentDay <= MaxDay
    /\ LET title   == topo[idx]
           taskDue == get(taskMap, title).dueDate
       IN  /\ warnings' = IF currentDay >= taskDue /\ rem > 0
                          THEN Append(warnings, [title |-> title, dueDate |-> format(taskDue),
                                                 after |-> format(currentDay)])
                          ELSE warnings
           /\ IF freeHoursToday <= 0
              THEN /\ advanceToNextWorkday
                   /\ UNCHANGED <<schedule, rem>>
              ELSE LET alloc == min(freeHoursToday, rem)
                   IN  /\ schedule' = addAllocation(schedule, format(currentDay), title, alloc)
                       /\ rem' = rem - alloc
                       /\ IF rem - alloc > 0
                          THEN advanceToNextWorkday
                          ELSE /\ freeHoursToday' = freeHoursToday - alloc
                               /\ UNCHANGED currentDay
    /\ UNCHANGED <<args, pc, error, taskMap, indeg, adj, available, topo,
                   remaining, finishedAt, idx, d, result>>

\* AllocStep without the test of line 160: it allocates from a day that has no hours left
AllocStepNoFreeCheck ==
    /\ pc = "alloc"
    /\ rem > 0
    /\ currentDay <= MaxDay
    /\ LET title   == topo[idx]
           taskDue == get(taskMap, title).dueDate
           alloc   == min(freeHoursToday, rem)
       IN  /\ warnings' = IF currentDay > taskDue /\ rem > 0
                          THEN Append(warnings, [title |-> title, dueDate |-> format(taskDue),
                                                 after |-> format(currentDay)])
                          ELSE warnings
           /\ schedule' = addAllocation(schedule, format(currentDay), title, alloc)
           /\ rem' = rem - alloc
           /\ IF rem - alloc > 0
              THEN advanceToNextWorkday
              ELSE /\ freeHoursToday' = freeHoursToday - alloc
                   /\ UNCHANGED currentDay
    /\ UNCHANGED <<args, pc, error, taskMap, indeg, adj, available, topo,
                   remaining, finishedAt, idx, d, result>>

\* lines 151-173, one iteration of the while loop
AllocStep ==
    /\ pc = "alloc"
    /\ rem > 0
    /\ currentDay <= MaxDay
    /\ LET title   == topo[idx]
           taskDue == get(taskMap, title).dueDate
       IN  /\ warnings' = IF currentDay > taskDue /\ rem > 0
                          THEN Append(warnings, [title |-> title, dueDate |-> format(taskDue),
                                                 after |-> format(currentDay)])
                          ELSE warnings
           /\ IF freeHoursToday <= 0
              THEN /\ advanceToNextWorkday
                   /\ UNCHANGED <<schedule, rem>>
              ELSE LET alloc == min(freeHoursToday, rem)
                   IN  /\ schedule' = addAllocation(schedule, format(currentDay), title, alloc)
                       /\ rem' = rem - alloc
                       /\ IF rem - alloc > 0
                          THEN advanceToNextWorkday
                          ELSE /\ freeHoursToday' = freeHoursToday - alloc
                               /\ UNCHANGED currentDay
    /\ UNCHANGED <<args, pc, error, taskMap, indeg, adj, available, topo,
                   remaining, finishedAt, idx, d, result>>

\* lines 174-179: the while loop is left, the finish date is recorded
FinishTask ==
    /\ pc = "alloc"
    /\ ~(rem > 0)
    /\ LET title == topo[idx]
           recs  == recordsOf(schedule, title)
       IN  IF recs = {}
           THEN /\ throw("TypeError")
                /\ UNCHANGED <<finishedAt, idx>>
           ELSE LET lastDayRecord == schedule[CHOOSE i \in recs : \A j \in recs : j <= i]
                IN  /\ finishedAt' = (title :> dayjs(lastDayRecord.date)) @@ finishedAt
                    /\ idx' = idx + 1
                    /\ pc' = "task"
                    /\ UNCHANGED error
    /\ UNCHANGED <<args, taskMap, indeg, adj, available, topo, currentDay, freeHoursToday,
                   remaining, schedule, warnings, rem, d, result>>

\* Return handing out the titles in input order for the sequenced order
ReturnInputOrder ==
    /\ pc = "task"
    /\ idx > Len(topo)
    /\ result' = <<[recommendedOrder |-> keys(taskMap), schedule |-> schedule, warnings |-> warnings]>>
    /\ pc' = "done"
    /\ UNCHANGED <<args, error, taskMap, indeg, adj, available, topo, currentDay,
                   freeHoursToday, remaining, finishedAt, schedule, warnings, idx, rem, d>>

\* lines 181-188
Return ==
    /\ pc = "task"
    /\ idx > Len(topo)
    /\ result' = <<[recommendedOrder |-> topo, schedule |-> schedule, warnings |-> warnings]>>
    /\ pc' = "done"
    /\ UNCHANGED <<args, error, taskMap, indeg, adj, available, topo, currentDay,
                   freeHoursToday, remaining, finishedAt, schedule, warnings, idx, rem, d>>

Next ==
    \/ ValidateTasks
    \/ ValidateDependencies
    \/ BuildGraph
    \/ KahnStep
    \/ CheckCycle
    \/ StartAllocation
    \/ NextWorkdayLoop
    \/ BeginTask
    \/ AllocStep
    \/ FinishTask
    \/ Return

Spec == Init /\ [][Next]_vars

\* the call is one synchronous computation: it takes its next step whenever it has one
LiveSpec == LiveInit /\ [][Next]_vars /\ WF_vars(Next)


-----------------------------------------------------------------------------
(* Vocabulary of the properties, stated on the argument object and the outcome *)

InTitles == {args.tasks[i].title : i \in 1..Len(args.tasks)}

\* the seven ways a task list fails registry validation
MissingOrEmpty == ~args.tasksIsArray \/ Len(args.tasks) = 0
NoTitle == \E i \in 1..Len(args.tasks) : args.tasks[i].title = ""
BadHours ==
    \E i \in 1..Len(args.tasks) :
        args.tasks[i].hoursType # "number" \/ ~(args.tasks[i].estimatedHours > 0)
BadDueDate == \E i \in 1..Len(args.tasks) : ~isValid(args.tasks[i].dueDate)
RepeatedTitle ==
    \E i, j \in 1..Len(args.tasks) : i # j /\ args.tasks[i].title = args.tasks[j].title
UnknownDependency ==
    \E i \in 1..Len(args.tasks) : \E k \in 1..Len(args.tasks[i].dependencies) :
        args.tasks[i].dependencies[k] \notin InTitles
SelfDependency ==
    \E i \in 1..Len(args.tasks) : \E k \in 1..Len(args.tasks[i].dependencies) :
        args.tasks[i].dependencies[k] = args.tasks[i].title

Defective ==
    MissingOrEmpty \/ NoTitle \/ BadHours \/ BadDueDate \/ RepeatedTitle
    \/ UnknownDependency \/ SelfDependency

RegistryValid == ~Defective

\* dependency edges <<dep, title>> of the input
InputEdges ==
    {e \in InTitles \X InTitles :
        \E i \in 1..Len(args.tasks) :
            /\ args.tasks[i].title = e[2]
            /\ \E k \in 1..Len(args.tasks[i].dependencies) : args.tasks[i].dependencies[k] = e[1]}

\* a path of at least one and at most n + 1 dependency edges leads from a to b
RECURSIVE reaches(_, _, _)
reaches(a, b, n) ==
    \/ <<a, b>> \in InputEdges
    \/ n > 0 /\ \E m \in InTitles : <<a, m>> \in InputEdges /\ reaches(m, b, n - 1)

HasCycle == \E t \in InTitles : reaches(t, t, Len(args.tasks))

InputTask(title) == args.tasks[CHOOSE i \in 1..Len(args.tasks) : args.tasks[i].title = title]

\* position of title in the order
pos(order, title) == CHOOSE i \in 1..Len(order) : order[i] = title

RECURSIVE sumHours(_, _)
sumHours(allocs, title) ==
    IF allocs = <<>> THEN 0
    ELSE (IF title = "" \/ Head(allocs).title = title THEN Head(allocs).hours ELSE 0)
         + sumHours(Tail(allocs), title)

\* hours of title over the records of sched on the dates of the set dates ("" is every title)
RECURSIVE hoursIn(_, _, _)
hoursIn(sched, title, dates) ==
    IF sched = <<>> THEN 0
    ELSE (IF Head(sched).date \in dates THEN sumHours(Head(sched).allocations, title) ELSE 0)
         + hoursIn(Tail(sched), title, dates)

datesOf(sched) == {sched[i].date : i \in 1..Len(sched)}

\* the dates on which title has an allocation
allocDates(sched, title) == {dayjs(sched[i].date) : i \in recordsOf(sched, title)}

Returned == pc = "done"

-----------------------------------------------------------------------------
(* C1 *)

\* C1: for a validated acyclic input the returned recommendedOrder holds every
\* title exactly once, and every dependency is at an earlier position than its dependent
C1_TopologicalOrder ==
    Returned =>
        LET order == result[1].recommendedOrder
        IN  /\ RegistryValid /\ ~HasCycle
            /\ Len(order) = Cardinality(InTitles)
            /\ \A t \in InTitles : Cardinality({i \in 1..Len(order) : order[i] = t}) = 1
            /\ \A e \in InputEdges : pos(order, e[1]) < pos(order, e[2])

\* three tasks, two dependency edges, and the order is not the input order
C1_Witness ==
    /\ Returned
    /\ Len(args.tasks) = 3
    /\ Cardinality(InputEdges) >= 2
    /\ result[1].recommendedOrder[1] # args.tasks[1].title

(* C2 *)

\* C2: in the returned schedule the hours allocated to each task sum to its estimatedHours
C2_HoursSumToEstimate ==
    Returned =>
        \A t \in InTitles :
            hoursIn(result[1].schedule, t, datesOf(result[1].schedule)) = InputTask(t).estimatedHours

\* a task of more hours than a day holds, split over two dates
C2_Witness ==
    /\ Returned
    /\ \E t \in InTitles :
        /\ InputTask(t).estimatedHours > args.workHoursPerDay
        /\ Cardinality(allocDates(result[1].schedule, t)) >= 2

(* C3 *)

\* C3: at every point of the walk and in the returned schedule no date holds more
\* than workHoursPerDay hours, summed over all tasks and all records of that date
C3_DayCapacity ==
    /\ \A dt \in datesOf(schedule) : hoursIn(schedule, "", {dt}) <= args.workHoursPerDay
    /\ Returned =>
         \A dt \in datesOf(result[1].schedule) :
             hoursIn(result[1].schedule, "", {dt}) <= args.workHoursPerDay

\* a date filled to capacity by two tasks, and the walk has moved on to a later date
C3_Witness ==
    /\ Len(schedule) >= 2
    /\ Len(schedule[1].allocations) = 2
    /\ hoursIn(schedule, "", {schedule[1].date}) = args.workHoursPerDay

(* C4 *)

\* C4: every recorded allocation is on a date whose weekday name is in workDays
C4_OnlyWorkDays ==
    \A i \in 1..Len(schedule) :
        WEEKDAY_NAME[day(dayjs(schedule[i].date)) + 1] \in args.workDays

\* the start date is no workday and the walk has crossed a weekend
C4_Witness ==
    /\ Len(schedule) >= 2
    /\ args.startDate # <<>>
    /\ WEEKDAY_NAME[day(dayjs(args.startDate[1])) + 1] \notin args.workDays
    /\ \E i \in 1..(Len(schedule) - 1) :
          dayjs(schedule[i + 1].date) > dayjs(schedule[i].date) + 1


(* C5 *)

\* C5: no task has an allocation on a date strictly before the finish date (the
\* date of the last allocation) of one of its dependencies
C5_NotBeforeDependencyFinish ==
    \A e \in InputEdges :
        \A dd \in allocDates(schedule, e[1]) : \A td \in allocDates(schedule, e[2]) : dd <= td

\* a task with two dependencies that finish on different dates has its allocation
C5_Witness ==
    /\ Returned
    /\ \E t \in InTitles : \E e1, e2 \in InputEdges :
          /\ e1[2] = t /\ e2[2] = t
          /\ finishedAt[e1[1]] < finishedAt[e2[1]]
          /\ allocDates(schedule, t) # {}

(* C6 *)

PastCycleCheck == pc \in {"start", "nextWorkday", "task", "alloc", "done"}

\* C6: a task set that passes registry validation fails with the cycle error, and
\* returns nothing, exactly when its dependency graph has a cycle
C6_CycleErrorIffCycle ==
    RegistryValid =>
        /\ pc = "error" => (error = "Cycle detected in dependencies" /\ HasCycle /\ result = None)
        /\ PastCycleCheck => ~HasCycle
        /\ (pc = "kahn" /\ Len(available) = 0 /\ HasCycle) => Len(topo) # Len(taskMap)

\* A depends on B and B depends on A: the cycle error
C6_Witness ==
    /\ pc = "error"
    /\ error = "Cycle detected in dependencies"
    /\ Len(args.tasks) = 2
    /\ InputEdges = {<<"A", "B">>, <<"B", "A">>}

(* C7 *)

C8_NoAllocationBeforeChecks ==
    /\ (schedule # <<>> \/ warnings # <<>>) =>
          (pc \in {"task", "alloc", "done"} /\ RegistryValid /\ ~HasCycle)
    /\ pc = "error" => (schedule = <<>> /\ warnings = <<>> /\ result = None)

\* the sequencer emitted a task before the cycle error ended the call
C8_Witness ==
    /\ pc = "error"
    /\ error = "Cycle detected in dependencies"
    /\ Len(topo) > 0
    /\ schedule = <<>>


(* C9 *)

Ended == pc \in {"done", "error"}

\* C9: every call, whatever its task list and calendar configuration, eventually
\* returns a result or throws an error
C9_AlwaysEnds == <>Ended

(* C10 *)

WalkPrecondition ==
    /\ RegistryValid
    /\ ~HasCycle
    /\ args.workHoursPerDay > 0
    /\ HasWorkday(args.workDays)

AllFinished ==
    /\ Returned
    /\ rem = 0
    /\ \A t \in InTitles : t \in DOMAIN finishedAt

\* C10: for a validated acyclic task set, workHoursPerDay > 0 and a workDays set
\* with a weekday name, the walk ends: every task's remaining hours reach 0 and
\* every task gets a finish date
C10_WalkTerminates == WalkPrecondition ~> AllFinished

\* three tasks took at least four dates, and the call has returned
C10_Witness ==
    /\ WalkPrecondition
    /\ AllFinished
    /\ Len(args.tasks) = 3
    /\ Len(schedule) >= 4


(* C11 *)

\* x ranks before y: earlier due date, then more hours, then the smaller title
Before(x, y) ==
    LET tx == InputTask(x)
        ty == InputTask(y)
    IN  \/ dayjs(tx.dueDate) < dayjs(ty.dueDate)
        \/ /\ tx.dueDate = ty.dueDate
           /\ \/ tx.estimatedHours > ty.estimatedHours
              \/ tx.estimatedHours = ty.estimatedHours /\ Rank(x) < Rank(y)

\* neither depends on the other, directly or through other tasks
Unconstrained(x, y) ==
    /\ x # y
    /\ ~reaches(x, y, Len(args.tasks))
    /\ ~reaches(y, x, Len(args.tasks))

\* every dependency of x and of y is in the order before both of them
ReadyTogether(order, x, y) ==
    \A e \in InputEdges :
        e[2] \in {x, y} => (pos(order, e[1]) < pos(order, x) /\ pos(order, e[1]) < pos(order, y))

\* C11 as stated: of two tasks unconstrained relative to each other, the one that
\* ranks before the other (due date, then more hours, then title) comes first in recommendedOrder
C11_UnconstrainedByKey ==
    Returned =>
        \A x, y \in InTitles :
            (Unconstrained(x, y) /\ Before(x, y))
                => pos(result[1].recommendedOrder, x) < pos(result[1].recommendedOrder, y)

\* C11 amended: of two tasks unconstrained relative to each other whose dependencies
\* are all in the order before the first of the two, the one that ranks before the
\* other comes first in recommendedOrder
C11_ReadyPairsByKey ==
    Returned =>
        \A x, y \in InTitles :
            (Unconstrained(x, y) /\ Before(x, y) /\ ReadyTogether(result[1].recommendedOrder, x, y))
                => pos(result[1].recommendedOrder, x) < pos(result[1].recommendedOrder, y)

\* two tasks of equal due date, one of them with a dependency, ordered by their hours
C11_Witness ==
    /\ Returned
    /\ \E x, y \in InTitles :
          /\ Unconstrained(x, y)
          /\ ReadyTogether(result[1].recommendedOrder, x, y)
          /\ InputTask(x).dueDate = InputTask(y).dueDate
          /\ InputTask(x).estimatedHours > InputTask(y).estimatedHours
          /\ Rank(y) < Rank(x)
          /\ \E e \in InputEdges : e[2] = y
          /\ pos(result[1].recommendedOrder, x) < pos(result[1].recommendedOrder, y)


(* C12 *)

\* the date of the last allocation of title
finishDate(sched, title) ==
    CHOOSE f \in allocDates(sched, title) : \A a \in allocDates(sched, title) : a <= f

Warned(warns, title) ==
    \E k \in 1..Len(warns) :
        warns[k].title = title /\ warns[k].dueDate = InputTask(title).dueDate

\* C12: the returned warnings hold a warning naming task T and T's due date exactly
\* when T's finish date is strictly after T's due date
C12_WarningIffLate ==
    Returned =>
        \A t \in InTitles :
            Warned(result[1].warnings, t)
                <=> finishDate(result[1].schedule, t) > dayjs(InputTask(t).dueDate)

\* one task finished after its due date and is warned about, another finished on
\* its due date and is not
C12_Witness ==
    /\ Returned
    /\ \E t, u \in InTitles :
          /\ finishDate(result[1].schedule, t) > dayjs(InputTask(t).dueDate)
          /\ Warned(result[1].warnings, t)
          /\ finishDate(result[1].schedule, u) = dayjs(InputTask(u).dueDate)
          /\ ~Warned(result[1].warnings, u)


(* C13 *)

IsWorkday(date) == WEEKDAY_NAME[day(date) + 1] \in args.workDays

\* the first workday on or after date, within a week
FirstWorkdayFrom(date) ==
    CHOOSE w \in date..(date + 6) : IsWorkday(w) /\ \A v \in date..(w - 1) : ~IsWorkday(v)

\* the dates the walk can start from: the start date, today when there is none
PossibleStarts ==
    IF args.startDate # <<>> THEN {dayjs(args.startDate[1])} ELSE {dayjs(s) : s \in StartDates}

\* C13: the earliest allocation is on the first workday on or after the start date,
\* and no allocation is on a date before the start date
C13_StartsOnFirstWorkday ==
    schedule # <<>> =>
        \E start \in PossibleStarts :
            /\ dayjs(schedule[1].date) = FirstWorkdayFrom(start)
            /\ \A i \in 1..Len(schedule) :
                  /\ dayjs(schedule[i].date) >= dayjs(schedule[1].date)
                  /\ dayjs(schedule[i].date) >= start

\* the start date is a Saturday that is no workday; allocations on the Monday after and later
C13_Witness ==
    /\ Len(schedule) >= 2
    /\ args.startDate = <<<<1970, 1, 3>>>>
    /\ ~IsWorkday(dayjs(args.startDate[1]))
    /\ schedule[1].date = <<1970, 1, 5>>


(* C14 *)

\* C14: one task A of 10 hours due 2024-01-10, 8 hours a day, Monday to Friday, from
\* Monday 2024-01-08: the order is A, the schedule is 2024-01-08 with A: 8 and
\* 2024-01-09 with A: 2, and there is no warning
C14_ExampleSplit ==
    (args = ExampleSplit /\ Ended) =>
        result = <<[recommendedOrder |-> <<"A">>,
                    schedule |-> <<[date |-> <<2024, 1, 8>>,
                                    allocations |-> <<[title |-> "A", hours |-> 8]>>],
                                   [date |-> <<2024, 1, 9>>,
                                    allocations |-> <<[title |-> "A", hours |-> 2]>>]>>,
                    warnings |-> <<>>]>>

\* the call on the example has returned
C14_Witness == args = ExampleSplit /\ Returned /\ Len(result[1].schedule) = 2

(* C15 *)

\* two tasks, the second of the order depending on the first, which needs a whole
\* day; the dependent needs at most a day; the start date is a workday
FullDayThenDependent(a, b) ==
    /\ RegistryValid
    /\ InTitles = {a, b}
    /\ InputEdges = {<<a, b>>}
    /\ InputTask(a).estimatedHours = args.workHoursPerDay
    /\ InputTask(b).estimatedHours <= args.workHoursPerDay
    /\ args.startDate # <<>>
    /\ IsWorkday(dayjs(args.startDate[1]))

\* C15: when B depends on A, A needs exactly workHoursPerDay hours, B no more than
\* that (8 and 4 in the example) and the start date is a workday, the schedule is A's
\* hours on the start date and B's hours on the next workday, and nothing else: no
\* allocation of B, of zero hours or more, on the first day
C15_DependentOnNextWorkday ==
    Returned =>
        \A a, b \in InTitles :
            FullDayThenDependent(a, b) =>
                result[1].schedule =
                    <<[date |-> args.startDate[1],
                       allocations |-> <<[title |-> a, hours |-> InputTask(a).estimatedHours]>>],
                      [date |-> format(FirstWorkdayFrom(dayjs(args.startDate[1]) + 1)),
                       allocations |-> <<[title |-> b, hours |-> InputTask(b).estimatedHours]>>]>>

\* the example: A of 8 hours on Monday 2024-01-08, B of 4 hours on the Tuesday
C15_Witness ==
    /\ args = ExampleDependent
    /\ Returned
    /\ FullDayThenDependent("A", "B")
    /\ result[1].schedule[2] = [date |-> <<2024, 1, 9>>, allocations |-> <<[title |-> "B", hours |-> 4]>>]


(* C16 *)

\* the tasks not in the set emitted whose dependencies are all in it
ReadySet(emitted) ==
    {t \in InTitles \ emitted : \A e \in InputEdges : e[2] = t => e[1] \in emitted}

elements(s) == {s[i] : i \in 1..Len(s)}

\* C16: every task of the order is, under the key (due date ascending, hours
\* descending, title ascending), the minimum of the tasks that were ready when it was
\* emitted: those not emitted before it whose dependencies all were; and while the
\* sequencer runs, the ready array holds exactly the ready tasks
C16_EmitsMinimumOfReady ==
    (RegistryValid /\ pc \notin {"validate", "dependencies", "graph"}) =>
        /\ \A k \in 1..Len(topo) :
              LET ready == ReadySet({topo[i] : i \in 1..(k - 1)})
              IN  /\ topo[k] \in ready
                  /\ \A u \in ready \ {topo[k]} : Before(topo[k], u)
        /\ pc = "kahn" => elements(available) = ReadySet(elements(topo))

\* a dependent that became ready during the run was emitted before a task that was
\* ready from the start
C16_Witness ==
    /\ RegistryValid
    /\ Len(topo) = 3
    /\ <<topo[1], topo[2]>> \in InputEdges
    /\ \A e \in InputEdges : e[2] # topo[3]


(* C17 *)

\* hours on the date of the first n tasks of the order
RECURSIVE hoursOfFirst(_, _, _, _)
hoursOfFirst(sched, order, n, date) ==
    IF n = 0 THEN 0
    ELSE hoursIn(sched, order[n], {date}) + hoursOfFirst(sched, order, n - 1, date)

firstDate(sched, title) ==
    CHOOSE f \in allocDates(sched, title) : \A a \in allocDates(sched, title) : f <= a

\* the task before position k of the order finished on a date that the tasks up to
\* it did not fill
LeftFreeHours(sched, order, k) ==
    hoursOfFirst(sched, order, k - 1, format(finishDate(sched, order[k - 1]))) < args.workHoursPerDay

\* C17: when the task processed just before T finishes on a date with free hours
\* left, T's first allocation is on that date, also when that task is a dependency of T
C17_StartsWhereTheLastFinished ==
    \A k \in 2..Len(topo) :
        (allocDates(schedule, topo[k]) # {} /\ LeftFreeHours(schedule, topo, k))
            => firstDate(schedule, topo[k]) = finishDate(schedule, topo[k - 1])

\* a dependent started on the date its dependency finished
C17_Witness ==
    /\ Returned
    /\ \E k \in 2..Len(topo) :
          /\ <<topo[k - 1], topo[k]>> \in InputEdges
          /\ LeftFreeHours(schedule, topo, k)
          /\ firstDate(schedule, topo[k]) = finishDate(schedule, topo[k - 1])


(* C18 *)

Chronological(sched) ==
    \A i, j \in 1..Len(sched) : i < j => dayjs(sched[i].date) < dayjs(sched[j].date)

\* C18: the day records are in strictly increasing date order, during the walk and
\* in the returned schedule; no date has two records
C18_RecordsChronological ==
    /\ Chronological(schedule)
    /\ Returned => Chronological(result[1].schedule)

\* three tasks on at least three dates, one date shared by two tasks
C18_Witness ==
    /\ Returned
    /\ Len(args.tasks) = 3
    /\ Len(result[1].schedule) >= 3
    /\ \E i \in 1..Len(result[1].schedule) : Len(result[1].schedule[i].allocations) >= 2

(* C19 *)

InWalk == pc \in {"task", "alloc"}

\* a step of the walk does not move the date back; the step that begins a task finds
\* every dependency finished on or before the date and leaves date and free hours alone
WalkStep ==
    /\ (InWalk /\ pc' \in {"task", "alloc", "done"}) => currentDay' >= currentDay
    /\ (pc = "task" /\ pc' = "alloc") =>
          /\ \A e \in InputEdges : e[2] = topo[idx] => finishedAt[e[1]] <= currentDay
          /\ currentDay' = currentDay
          /\ freeHoursToday' = freeHoursToday

\* C19: the simulation date never moves backwards, no dependency's finish date is
\* after the simulation date when a task begins, and the gating step changes neither
\* the date nor the free hours
C19_GateNeverMoves == [][WalkStep]_vars

\* a task has just begun on the date its dependency finished, with part of the day used
C19_Witness ==
    /\ pc = "alloc"
    /\ rem = remaining[topo[idx]]
    /\ allocDates(schedule, topo[idx]) = {}
    /\ \E e \in InputEdges : e[2] = topo[idx] /\ finishedAt[e[1]] = currentDay
    /\ freeHoursToday > 0
    /\ freeHoursToday < args.workHoursPerDay

(* C20 *)

RECURSIVE totalHours(_)
totalHours(tasks) ==
    IF tasks = <<>> THEN 0 ELSE Head(tasks).estimatedHours + totalHours(Tail(tasks))

recordHours(rec) == sumHours(rec.allocations, "")

\* C20: in the returned schedule every day record but the last holds exactly
\* workHoursPerDay hours, the records are on consecutive workdays from the first
\* workday on or after the start date, and their number is the sum of all
\* estimatedHours divided by workHoursPerDay, rounded up
C20_DensePacking ==
    Returned =>
        LET sched == result[1].schedule
            n     == Len(sched)
        IN  /\ \A i \in 1..(n - 1) : recordHours(sched[i]) = args.workHoursPerDay
            /\ \E start \in PossibleStarts : dayjs(sched[1].date) = FirstWorkdayFrom(start)
            /\ \A i \in 1..(n - 1) :
                  dayjs(sched[i + 1].date) = FirstWorkdayFrom(dayjs(sched[i].date) + 1)
            /\ n * args.workHoursPerDay >= totalHours(args.tasks)
            /\ (n - 1) * args.workHoursPerDay < totalHours(args.tasks)

\* three tasks over a weekend, the last day not full
C20_Witness ==
    /\ Returned
    /\ Len(args.tasks) = 3
    /\ Len(result[1].schedule) >= 3
    /\ recordHours(result[1].schedule[Len(result[1].schedule)]) < args.workHoursPerDay
    /\ \E i \in 1..(Len(result[1].schedule) - 1) :
          dayjs(result[1].schedule[i + 1].date) > dayjs(result[1].schedule[i].date) + 2

====
